---- MODULE Spec2Model ----
(***************************************************************************)
(* Model of entrypoint.py: the launcher reads its configuration from the   *)
(* environment, renders /tmp/config.alloy and replaces itself with alloy.  *)
(*                                                                         *)
(* Strings are sequences of pieces.  Every string that takes part in a     *)
(* derived block name (host, role, job name, namespace, port digits, the   *)
(* literal "target_") is a sequence of single characters, so that          *)
(* str.replace, str.split and name equality are computed on characters.    *)
(* Strings that are only copied (urls, credentials, durations, paths,      *)
(* label keys) are one opaque piece.  The empty string is <<>>.            *)
(* An optional value (Python None / a missing dict key / an unset          *)
(* environment variable) is <<>>, a present value v is <<v>>.              *)
(***************************************************************************)
EXTENDS Integers, Sequences, FiniteSets, TLC

VARIABLES
    environ,              \* os.environ, fixed at process start
    pc,                   \* position of the process in main()
    remotes,              \* main.remotes: insertion-ordered dict, as a sequence
    target_configs,       \* main.target_configs
    kubernetes_namespace, \* write_config.kubernetes_namespace
    tool_name,            \* write_config.tool_name
    forward_to,           \* write_config.forward_to
    config,               \* write_config.config: the lines appended so far
    idx,                  \* position of the "for target_config" loop
    probes,               \* history: per rendered entry, the lines [from, upto]
                          \* it was given and the kubeconfig its probe found
    file,                 \* content of /tmp/config.alloy (None: no file)
    stdout,               \* messages printed
    outcome,              \* "running" | "exit" | "uncaught" | "exec"
    exit_status,          \* the argument of sys.exit
    binary_is_file,       \* result of run_alloy's binary_path.is_file()
    execv                 \* argv handed to os.execv

vars == <<environ, pc, remotes, target_configs, kubernetes_namespace, tool_name,
          forward_to, config, idx, probes, file, stdout, outcome, exit_status,
          binary_is_file, execv>>

---------------------------------------------------------------------------
(* Optional values and Python truthiness *)

None == <<>>

Some(v) == <<v>>

IsSome(o) == Len(o) = 1

\* dict.get(key, default) / os.environ.get(key, default)
GetOr(o, default) == IF IsSome(o) THEN o[1] ELSE default

\* `if x:` for an Optional[str]: None and "" are both falsy
Truthy(o) == IsSome(o) /\ Len(o[1]) > 0

---------------------------------------------------------------------------
(* Character-level string functions *)

HYPHEN == <<"-">>

UNDERSCORE == <<"_">>

S_target_ == <<"t", "a", "r", "g", "e", "t", "_">>

S_tool_ == <<"t", "o", "o", "l", "-">>

S_all == <<"a", "l", "l">>

S_pod == <<"p", "o", "d">>

\* str.startswith
StartsWith(s, p) == Len(s) >= Len(p) /\ SubSeq(s, 1, Len(p)) = p

\* str.replace(old, new), old non-empty: leftmost non-overlapping occurrences
RECURSIVE Replace(_, _, _)
Replace(s, old, new) ==
    IF s = <<>> THEN <<>>
    ELSE IF StartsWith(s, old)
         THEN new \o Replace(SubSeq(s, Len(old) + 1, Len(s)), old, new)
         ELSE <<Head(s)>> \o Replace(Tail(s), old, new)

\* str.split(sep), sep non-empty: the pieces between occurrences of sep
RECURSIVE SplitFrom(_, _, _)
SplitFrom(s, sep, cur) ==
    IF s = <<>> THEN <<cur>>
    ELSE IF StartsWith(s, sep)
         THEN <<cur>> \o SplitFrom(SubSeq(s, Len(sep) + 1, Len(s)), sep, <<>>)
         ELSE SplitFrom(Tail(s), sep, Append(cur, Head(s)))

Split(s, sep) == SplitFrom(s, sep, <<>>)

IsSpace(c) == c \in {" ", "\n", "\t"}

\* str.strip()
RECURSIVE Strip(_)
Strip(s) ==
    IF s = <<>> THEN <<>>
    ELSE IF IsSpace(Head(s)) THEN Strip(Tail(s))
    ELSE IF IsSpace(s[Len(s)]) THEN Strip(SubSeq(s, 1, Len(s) - 1))
    ELSE s

Digit(d) == <<"0", "1", "2", "3", "4", "5", "6", "7", "8", "9">>[d + 1]

\* str(n) for a non-negative int, as f-string interpolation formats it
RECURSIVE IntToStr(_)
IntToStr(n) == IF n < 10 THEN <<Digit(n)>> ELSE IntToStr(n \div 10) \o <<Digit(n % 10)>>

\* sep.join(parts)
RECURSIVE Join(_, _)
Join(parts, sep) ==
    IF parts = <<>> THEN <<>>
    ELSE IF Len(parts) = 1 THEN parts[1]
    ELSE parts[1] \o sep \o Join(Tail(parts), sep)

---------------------------------------------------------------------------
(* Configuration objects *)

DEFAULT_INTERVAL == <<"60s">>

DEFAULT_TIMEOUT == <<"60s">>

DEFAULT_LABEL == <<"__meta_kubernetes_pod_label_app_kubernetes_io_name">>

LOCAL_URL == <<"http://prometheus.tool-cluebotng-monitoring.svc.tools.local:9090/api/v1/write">>

RemoteConfig(name, url, username, password) ==
    [name |-> name, url |-> url, username |-> username, password |-> password]

TargetConfig(host, port, interval, timeout, path) ==
    [cls |-> "TargetConfig", host |-> host, port |-> port, interval |-> interval,
     timeout |-> timeout, path |-> path]

JobConfig(name, interval, timeout, label, path) ==
    [name |-> name, interval |-> interval, timeout |-> timeout, label |-> label,
     path |-> path]

\* JobConfig(name=...) with the dataclass defaults
JobConfigDefault(name) == JobConfig(name, DEFAULT_INTERVAL, DEFAULT_TIMEOUT, DEFAULT_LABEL, None)

safe_name(job) == Replace(job.name, HYPHEN, UNDERSCORE)

DiscoverConfig(role, jobs) == [cls |-> "DiscoverConfig", role |-> role, jobs |-> jobs]

---------------------------------------------------------------------------
(* Configuration loader *)

get_local_config(env) ==
    IF GetOr(env.ALLOY_SEND_TO_LOCAL_CLUSTER, <<"true">>) = <<"true">>
    THEN Some(RemoteConfig(<<"local">>, LOCAL_URL, env.ALLOY_LOCAL_USERNAME,
                           env.ALLOY_LOCAL_PASSWORD))
    ELSE None

\* get_remote_config taking an empty ALLOY_REMOTE_URL for a url
get_remote_config_EmptyUrl(env) ==
    IF IsSome(env.ALLOY_REMOTE_URL)
    THEN Some(RemoteConfig(<<"remote">>, env.ALLOY_REMOTE_URL[1], env.ALLOY_REMOTE_USERNAME,
                           env.ALLOY_REMOTE_PASSWORD))
    ELSE None

get_remote_config(env) ==
    IF Truthy(env.ALLOY_REMOTE_URL)
    THEN Some(RemoteConfig(<<"remote">>, env.ALLOY_REMOTE_URL[1], env.ALLOY_REMOTE_USERNAME,
                           env.ALLOY_REMOTE_PASSWORD))
    ELSE None

\* main(): the remotes dict, "local" inserted before "remote"
BuildRemotes(env) == get_local_config(env) \o get_remote_config(env)

\* json.loads.  The text of ALLOY_SCRAPE_TARGETS is [kind, items]: kind "empty" is
\* the empty string, "malformed" is text that is not JSON (JSONDecodeError), "array"
\* is a JSON array whose elements are items; an element is a JSON object, a record
\* of Optional values, one per key the loader looks up
JsonLoads(text) == [ok |-> text.kind = "array", value |-> text.items]

\* the list comprehension over target.get("jobs", []); job["name"] raises KeyError
RECURSIVE LoadJobs(_)
LoadJobs(jobs) ==
    IF jobs = <<>> THEN [ok |-> TRUE, jobs |-> <<>>]
    ELSE LET job == Head(jobs)
             rest == LoadJobs(Tail(jobs))
         IN  IF ~IsSome(job.name) THEN [ok |-> FALSE, jobs |-> <<>>]
             ELSE IF ~rest.ok THEN rest
             ELSE [ok |-> TRUE,
                   jobs |-> <<JobConfig(job.name[1],
                                        GetOr(job.interval, DEFAULT_INTERVAL),
                                        GetOr(job.timeout, DEFAULT_TIMEOUT),
                                        GetOr(job.label, DEFAULT_LABEL),
                                        job.path)>> \o rest.jobs]

\* LoadEntry skipping a 'target' element without host or port
LoadEntry_SkipIncomplete(target) ==
    LET type == GetOr(target.type, <<"target">>) IN
    CASE type = <<"target">> ->
            IF IsSome(target.host) /\ IsSome(target.port)
            THEN [ok |-> TRUE,
                  add |-> <<TargetConfig(target.host[1], target.port[1],
                                         GetOr(target.interval, DEFAULT_INTERVAL),
                                         GetOr(target.timeout, DEFAULT_TIMEOUT),
                                         target.path)>>]
            ELSE [ok |-> TRUE, add |-> <<>>]
      [] type = <<"discover">> ->
            LET jobs == LoadJobs(GetOr(target.jobs, <<>>)) IN
            IF jobs.ok
            THEN [ok |-> TRUE, add |-> <<DiscoverConfig(GetOr(target.role, S_pod), jobs.jobs)>>]
            ELSE [ok |-> FALSE, add |-> <<>>]
      [] OTHER -> [ok |-> TRUE, add |-> <<>>]

\* LoadEntry taking an element of any other type for a 'target'
LoadEntry_DefaultToTarget(target) ==
    LET type == GetOr(target.type, <<"target">>) IN
    CASE type = <<"discover">> ->
            LET jobs == LoadJobs(GetOr(target.jobs, <<>>)) IN
            IF jobs.ok
            THEN [ok |-> TRUE, add |-> <<DiscoverConfig(GetOr(target.role, S_pod), jobs.jobs)>>]
            ELSE [ok |-> FALSE, add |-> <<>>]
      [] OTHER ->
            IF IsSome(target.host) /\ IsSome(target.port)
            THEN [ok |-> TRUE,
                  add |-> <<TargetConfig(target.host[1], target.port[1],
                                         GetOr(target.interval, DEFAULT_INTERVAL),
                                         GetOr(target.timeout, DEFAULT_TIMEOUT),
                                         target.path)>>]
            ELSE [ok |-> FALSE, add |-> <<>>]

\* the match statement of get_targets_config for one array element:
\* [ok, add]: ok = FALSE is a KeyError, add is what is appended to targets
LoadEntry(target) ==
    LET type == GetOr(target.type, <<"target">>) IN
    CASE type = <<"target">> ->
            IF IsSome(target.host) /\ IsSome(target.port)
            THEN [ok |-> TRUE,
                  add |-> <<TargetConfig(target.host[1], target.port[1],
                                         GetOr(target.interval, DEFAULT_INTERVAL),
                                         GetOr(target.timeout, DEFAULT_TIMEOUT),
                                         target.path)>>]
            ELSE [ok |-> FALSE, add |-> <<>>]
      [] type = <<"discover">> ->
            LET jobs == LoadJobs(GetOr(target.jobs, <<>>)) IN
            IF jobs.ok
            THEN [ok |-> TRUE, add |-> <<DiscoverConfig(GetOr(target.role, S_pod), jobs.jobs)>>]
            ELSE [ok |-> FALSE, add |-> <<>>]
      [] OTHER -> [ok |-> TRUE, add |-> <<>>]

RECURSIVE LoadEntries(_, _)
LoadEntries(items, targets) ==
    IF items = <<>> THEN [ok |-> TRUE, targets |-> targets]
    ELSE LET e == LoadEntry(Head(items)) IN
         IF e.ok THEN LoadEntries(Tail(items), targets \o e.add)
         ELSE [ok |-> FALSE, targets |-> <<>>]

\* get_targets_config: [ok, targets]; ok = FALSE is an exception leaving the function
get_targets_config(env) ==
    IF IsSome(env.ALLOY_SCRAPE_TARGETS) /\ env.ALLOY_SCRAPE_TARGETS[1].kind # "empty"
    THEN LET parsed == JsonLoads(env.ALLOY_SCRAPE_TARGETS[1]) IN
         IF parsed.ok THEN LoadEntries(parsed.value, <<>>)
         ELSE [ok |-> FALSE, targets |-> <<>>]
    ELSE [ok |-> TRUE, targets |-> <<>>]

\* get_kubernetes_namespace: nsfile is the namespace file's content, None if no file
get_kubernetes_namespace(nsfile) == IF IsSome(nsfile) THEN Some(Strip(nsfile[1])) ELSE None

get_tool_name(namespace) ==
    IF Truthy(namespace) /\ StartsWith(namespace[1], S_tool_)
    THEN Some(Split(namespace[1], S_tool_)[2])
    ELSE None

---------------------------------------------------------------------------
(* Config renderer: the document is the sequence of lines appended to `config`. *)
(* A line is the literal text of its f-string, with {} where a value is         *)
(* interpolated, and the interpolated values in order.                           *)

Line(t, a) == [t |-> t, a |-> a]

T_LOGGING == "logging {\n    level=\"debug\"\n}"

T_LIVEDEBUGGING == "livedebugging {\n    enabled=true\n}"

T_SCRAPE == "prometheus.scrape \"{}\" {"

T_ADDRESS == "    targets = [{__address__ = \"{}:{}\"}]"

T_INTERVAL == "    scrape_interval = \"{}\""

T_TIMEOUT == "    scrape_timeout = \"{}\""

T_METRICS_PATH == "    metrics_path = \"{}\""

T_LABELS == "    labels {"

T_SOURCE_TOOL == "        source_tool = \"{}\""

T_CLOSE4 == "    }"

T_FORWARD_TO == "    forward_to = [{}]"

T_CLOSE == "}"

T_DISCOVERY == "discovery.kubernetes \"{}\" {"

T_ROLE == "    role = \"{}\""

T_NAMESPACES == "    namespaces {"

T_NAMES == "        names = [\"{}\"]"

T_KUBECONFIG == "    kubeconfig_file = \"{}\""

T_RELABEL == "discovery.relabel \"{}\" {"

T_TARGETS_DISCOVERY == "    targets = discovery.kubernetes.{}.targets"

T_RULE == "    rule {"

T_SOURCE_LABELS == "        source_labels = [\"{}\"]"

T_REGEX == "        regex = \"{}\""

T_ACTION_KEEP == "        action = \"keep\""

T_TARGETS_RELABEL == "    targets = discovery.relabel.{}.output"

T_REMOTE_WRITE == "prometheus.remote_write \"{}\" {"

T_ENDPOINT == "  endpoint {"

T_URL == "    url = \"{}\""

T_BASIC_AUTH == "    basic_auth {"

T_USERNAME == "      username = \"{}\""

T_PASSWORD == "      password = \"{}\""

T_CLOSE2 == "  }"

\* f"prometheus.remote_write.{name}.receiver"
Receiver(name) == <<"prometheus.remote_write.">> \o name \o <<".receiver">>

\* ForwardTo naming the first destination only
ForwardTo_FirstOnly(rs) == IF rs = <<>> THEN <<>> ELSE <<Receiver(rs[1].name)>>

\* forward_to = [... for name in remotes.keys()]
RECURSIVE ForwardTo(_)
ForwardTo(rs) == IF rs = <<>> THEN <<>> ELSE <<Receiver(rs[1].name)>> \o ForwardTo(Tail(rs))

\* the two debug blocks
RenderDebug(debug) == IF debug THEN <<Line(T_LOGGING, <<>>), Line(T_LIVEDEBUGGING, <<>>)>> ELSE <<>>

\* the body of `if isinstance(target_config, TargetConfig)`
RenderTarget(tc, tool, fwd) ==
    LET clean_name == Replace(tc.host, HYPHEN, UNDERSCORE) IN
    <<Line(T_SCRAPE, <<S_target_ \o clean_name \o UNDERSCORE \o IntToStr(tc.port)>>),
      Line(T_ADDRESS, <<tc.host, IntToStr(tc.port)>>),
      Line(T_INTERVAL, <<tc.interval>>),
      Line(T_TIMEOUT, <<tc.timeout>>)>>
    \o (IF Truthy(tc.path) THEN <<Line(T_METRICS_PATH, <<tc.path[1]>>)>> ELSE <<>>)
    \o (IF Truthy(tool)
        THEN <<Line(T_LABELS, <<>>), Line(T_SOURCE_TOOL, <<tool[1]>>), Line(T_CLOSE4, <<>>)>>
        ELSE <<>>)
    \o <<Line(T_FORWARD_TO, <<Join(fwd, <<", ">>)>>), Line(T_CLOSE, <<>>)>>

\* the kubeconfig probe: TOOL_DATA_DIR and is_file() of <dir>/.kube/config
Kubeconfig(env, is_file) ==
    IF Truthy(env.TOOL_DATA_DIR) /\ is_file
    THEN Some(env.TOOL_DATA_DIR[1] \o <<"/.kube/config">>)
    ELSE None

\* the discovery.kubernetes block
RenderDiscovery(dc, namespace, kubeconfig) ==
    <<Line(T_DISCOVERY, <<dc.role>>), Line(T_ROLE, <<dc.role>>)>>
    \o (IF Truthy(namespace)
        THEN <<Line(T_NAMESPACES, <<>>), Line(T_NAMES, <<namespace[1]>>), Line(T_CLOSE4, <<>>)>>
        ELSE <<>>)
    \o (IF Truthy(kubeconfig) THEN <<Line(T_KUBECONFIG, <<kubeconfig[1]>>)>> ELSE <<>>)
    \o <<Line(T_CLOSE, <<>>)>>

\* one iteration of the first `for target_job in target_jobs` loop
RenderRelabel(role, job) ==
    IF job.name # S_all
    THEN <<Line(T_RELABEL, <<role \o UNDERSCORE \o safe_name(job)>>),
           Line(T_TARGETS_DISCOVERY, <<role>>),
           Line(T_RULE, <<>>),
           Line(T_SOURCE_LABELS, <<job.label>>),
           Line(T_REGEX, <<job.name>>),
           Line(T_ACTION_KEEP, <<>>),
           Line(T_CLOSE4, <<>>),
           Line(T_CLOSE, <<>>)>>
    ELSE <<>>

scrape_prefix(namespace) ==
    IF Truthy(namespace)
    THEN Replace(Replace(namespace[1], S_tool_, <<>>), HYPHEN, UNDERSCORE) \o UNDERSCORE
    ELSE <<>>

\* RenderJobScrape reading the raw discovery output for every job
RenderJobScrape_AlwaysRaw(role, job, namespace, fwd) ==
    <<Line(T_SCRAPE, <<scrape_prefix(namespace) \o role \o UNDERSCORE \o safe_name(job)>>),
      Line(T_TARGETS_DISCOVERY, <<role>>),
      Line(T_INTERVAL, <<job.interval>>),
      Line(T_TIMEOUT, <<job.timeout>>)>>
    \o (IF Truthy(job.path) THEN <<Line(T_METRICS_PATH, <<job.path[1]>>)>> ELSE <<>>)
    \o <<Line(T_FORWARD_TO, <<Join(fwd, <<", ">>)>>), Line(T_CLOSE, <<>>)>>

\* one iteration of the second `for target_job in target_jobs` loop
RenderJobScrape(role, job, namespace, fwd) ==
    <<Line(T_SCRAPE, <<scrape_prefix(namespace) \o role \o UNDERSCORE \o safe_name(job)>>),
      (IF job.name = S_all
       THEN Line(T_TARGETS_DISCOVERY, <<role>>)
       ELSE Line(T_TARGETS_RELABEL, <<role \o UNDERSCORE \o safe_name(job)>>)),
      Line(T_INTERVAL, <<job.interval>>),
      Line(T_TIMEOUT, <<job.timeout>>)>>
    \o (IF Truthy(job.path) THEN <<Line(T_METRICS_PATH, <<job.path[1]>>)>> ELSE <<>>)
    \o <<Line(T_FORWARD_TO, <<Join(fwd, <<", ">>)>>), Line(T_CLOSE, <<>>)>>

RECURSIVE RenderRelabels(_, _)
RenderRelabels(role, jobs) ==
    IF jobs = <<>> THEN <<>>
    ELSE RenderRelabel(role, Head(jobs)) \o RenderRelabels(role, Tail(jobs))

RECURSIVE RenderJobScrapes(_, _, _, _)
RenderJobScrapes(role, jobs, namespace, fwd) ==
    IF jobs = <<>> THEN <<>>
    ELSE RenderJobScrape(role, Head(jobs), namespace, fwd)
         \o RenderJobScrapes(role, Tail(jobs), namespace, fwd)

\* TargetJobs without the default job
TargetJobs_NoDefault(dc) == dc.jobs

\* target_jobs: an empty jobs list becomes [JobConfig(name="all")]
TargetJobs(dc) == IF dc.jobs = <<>> THEN <<JobConfigDefault(S_all)>> ELSE dc.jobs

\* the body of `if isinstance(target_config, DiscoverConfig)`
RenderDiscover(dc, namespace, kubeconfig, fwd) ==
    RenderDiscovery(dc, namespace, kubeconfig)
    \o RenderRelabels(dc.role, TargetJobs(dc))
    \o RenderJobScrapes(dc.role, TargetJobs(dc), namespace, fwd)

\* one iteration of `for target_config in target_configs`
RenderEntry(t, namespace, tool, kubeconfig, fwd) ==
    IF t.cls = "TargetConfig" THEN RenderTarget(t, tool, fwd)
    ELSE RenderDiscover(t, namespace, kubeconfig, fwd)

\* RenderRemote emitting basic_auth when either credential is present
RenderRemote_EitherCredential(remote) ==
    <<Line(T_REMOTE_WRITE, <<remote.name>>),
      Line(T_ENDPOINT, <<>>),
      Line(T_URL, <<remote.url>>)>>
    \o (IF Truthy(remote.username) \/ Truthy(remote.password)
        THEN <<Line(T_BASIC_AUTH, <<>>),
               Line(T_USERNAME, <<GetOr(remote.username, <<>>)>>),
               Line(T_PASSWORD, <<GetOr(remote.password, <<>>)>>),
               Line(T_CLOSE4, <<>>)>>
        ELSE <<>>)
    \o <<Line(T_CLOSE2, <<>>), Line(T_CLOSE, <<>>)>>

\* one iteration of `for name, remote in remotes.items()`
RenderRemote(remote) ==
    <<Line(T_REMOTE_WRITE, <<remote.name>>),
      Line(T_ENDPOINT, <<>>),
      Line(T_URL, <<remote.url>>)>>
    \o (IF Truthy(remote.username) /\ Truthy(remote.password)
        THEN <<Line(T_BASIC_AUTH, <<>>),
               Line(T_USERNAME, <<remote.username[1]>>),
               Line(T_PASSWORD, <<remote.password[1]>>),
               Line(T_CLOSE4, <<>>)>>
        ELSE <<>>)
    \o <<Line(T_CLOSE2, <<>>), Line(T_CLOSE, <<>>)>>

RECURSIVE RenderRemotes(_)
RenderRemotes(rs) ==
    IF rs = <<>> THEN <<>> ELSE RenderRemote(Head(rs)) \o RenderRemotes(Tail(rs))

---------------------------------------------------------------------------
(* The inputs: environment variables and filesystem probes *)

\* longest ALLOY_SCRAPE_TARGETS array
MaxTargets == 2

EmptyObject ==
    [type |-> None, host |-> None, port |-> None, interval |-> None, timeout |-> None,
     path |-> None, role |-> None, jobs |-> None]

EmptyJob == [name |-> None, label |-> None, interval |-> None, timeout |-> None, path |-> None]

H_a_b == <<"a", "-", "b">>

H_aub == <<"a", "_", "b">>

J_w_1 == <<"w", "-", "1">>

J_wu1 == <<"w", "_", "1">>

\* elements of the JSON array: static targets (complete, or missing host or port),
\* discovery entries (no jobs, filtered jobs, an "all" job, a job without a name)
\* and an element of another type
TargetObjects ==
    { [EmptyObject EXCEPT !.host = Some(H_a_b), !.port = Some(1)],
      [EmptyObject EXCEPT !.type = Some(<<"target">>), !.host = Some(H_aub), !.port = Some(1),
                          !.interval = Some(<<"30s">>), !.path = Some(<<"/m">>)],
      [EmptyObject EXCEPT !.type = Some(<<"target">>), !.host = Some(H_a_b), !.port = Some(12),
                          !.timeout = Some(<<"10s">>)],
      [EmptyObject EXCEPT !.type = Some(<<"target">>), !.port = Some(1)],
      [EmptyObject EXCEPT !.host = Some(H_a_b)] }

DiscoverObjects ==
    { [EmptyObject EXCEPT !.type = Some(<<"discover">>), !.role = Some(<<"s", "v", "c">>)],
      [EmptyObject EXCEPT !.type = Some(<<"discover">>), !.role = Some(S_pod),
                          !.jobs = Some(<<[EmptyJob EXCEPT !.name = Some(J_w_1)]>>)],
      [EmptyObject EXCEPT !.type = Some(<<"discover">>),
                          !.jobs = Some(<<[EmptyJob EXCEPT !.name = Some(S_all),
                                                           !.interval = Some(<<"30s">>)],
                                          [EmptyJob EXCEPT !.name = Some(J_wu1),
                                                           !.label = Some(<<"app">>),
                                                           !.path = Some(<<"/m">>)]>>)],
      [EmptyObject EXCEPT !.type = Some(<<"discover">>),
                          !.jobs = Some(<<[EmptyJob EXCEPT !.label = Some(<<"app">>)]>>)] }

OtherObjects ==
    { [EmptyObject EXCEPT !.type = Some(<<"other">>), !.host = Some(H_a_b), !.port = Some(1)] }

Objects == TargetObjects \cup DiscoverObjects \cup OtherObjects

Arrays == UNION { [1..n -> Objects] : n \in 0..MaxTargets }

\* values of ALLOY_SCRAPE_TARGETS: unset, "", not JSON, a JSON array
ScrapeTargetsValues ==
    { None, Some([kind |-> "empty", items |-> <<>>]), Some([kind |-> "malformed", items |-> <<>>]) }
    \cup { Some([kind |-> "array", items |-> a]) : a \in Arrays }

\* a username variable and a password variable: unset, empty, set
Usernames == { None, Some(<<>>), Some(<<"admin">>) }

Passwords == { None, Some(<<>>), Some(<<"s3cr3t">>) }

\* ALLOY_SEND_TO_LOCAL_CLUSTER and the local credentials (which are read only when
\* the local destination is enabled, and are left unset otherwise)
LocalVars ==
    { [ALLOY_SEND_TO_LOCAL_CLUSTER |-> Some(<<"false">>), ALLOY_LOCAL_USERNAME |-> None,
       ALLOY_LOCAL_PASSWORD |-> None] }
    \cup { [ALLOY_SEND_TO_LOCAL_CLUSTER |-> f, ALLOY_LOCAL_USERNAME |-> u,
            ALLOY_LOCAL_PASSWORD |-> p] :
           f \in {None, Some(<<"true">>)}, u \in Usernames, p \in Passwords }

\* ALLOY_REMOTE_URL and the remote credentials (read only when the url is set)
RemoteVars ==
    { [ALLOY_REMOTE_URL |-> url, ALLOY_REMOTE_USERNAME |-> None, ALLOY_REMOTE_PASSWORD |-> None] :
      url \in {None, Some(<<>>)} }
    \cup { [ALLOY_REMOTE_URL |-> Some(<<"http://r/write">>), ALLOY_REMOTE_USERNAME |-> u,
            ALLOY_REMOTE_PASSWORD |-> p] : u \in Usernames, p \in Passwords }

TOOL_DATA_DIRS == { None, Some(<<"/data/project/x">>) }

\* every array up to MaxTargets elements, under every set of destinations
\* (each switched on or off), without credentials
EnvironmentsByTargets ==
    { l @@ r @@ [ALLOY_SCRAPE_TARGETS |-> t, TOOL_DATA_DIR |-> d] :
      l \in { v \in LocalVars : /\ v.ALLOY_LOCAL_USERNAME = None
                                /\ v.ALLOY_LOCAL_PASSWORD = None
                                /\ v.ALLOY_SEND_TO_LOCAL_CLUSTER # Some(<<"true">>) },
      r \in { v \in RemoteVars : /\ v.ALLOY_REMOTE_USERNAME = None
                                 /\ v.ALLOY_REMOTE_PASSWORD = None
                                 /\ v.ALLOY_REMOTE_URL # Some(<<>>) },
      t \in ScrapeTargetsValues, d \in TOOL_DATA_DIRS }

\* a static target and a discovery entry with one filtered job
SomeArray ==
    << [EmptyObject EXCEPT !.host = Some(H_a_b), !.port = Some(1)],
       [EmptyObject EXCEPT !.type = Some(<<"discover">>), !.role = Some(S_pod),
                           !.jobs = Some(<<[EmptyJob EXCEPT !.name = Some(J_w_1)]>>)] >>

\* every choice of destinations and credentials, over a few values of the targets
EnvironmentsByCredentials ==
    { l @@ r @@ [ALLOY_SCRAPE_TARGETS |-> t, TOOL_DATA_DIR |-> d] :
      l \in LocalVars, r \in RemoteVars,
      t \in { None, Some([kind |-> "malformed", items |-> <<>>]),
              Some([kind |-> "array", items |-> SomeArray]) },
      d \in TOOL_DATA_DIRS }

Environments == EnvironmentsByTargets \cup EnvironmentsByCredentials

\* content of /var/run/secrets/kubernetes.io/serviceaccount/namespace (None: no file)
NamespaceFiles ==
    { None, Some(<<"t", "o", "o", "l", "-", "c", "-", "d", "\n">>), Some(<<"n", "s">>) }

---------------------------------------------------------------------------
(* The process *)

Init ==
    /\ environ \in Environments
    /\ pc = "main"
    /\ remotes = <<>>
    /\ target_configs = <<>>
    /\ kubernetes_namespace = None
    /\ tool_name = None
    /\ forward_to = <<>>
    /\ config = <<>>
    /\ idx = 0
    /\ probes = <<>>
    /\ file = None
    /\ stdout = <<>>
    /\ outcome = "running"
    /\ exit_status = None
    /\ binary_is_file = None
    /\ execv = None

\* print(msg); sys.exit(status)
Exit(msg, status) ==
    /\ stdout' = Append(stdout, msg)
    /\ outcome' = "exit"
    /\ exit_status' = Some(status)
    /\ pc' = "done"

\* an exception nothing catches
Uncaught ==
    /\ outcome' = "uncaught"
    /\ pc' = "done"
    /\ UNCHANGED <<stdout, exit_status>>

\* main(): build remotes, exit when there are none
MainRemotes ==
    /\ pc = "main"
    /\ remotes' = BuildRemotes(environ)
    /\ IF BuildRemotes(environ) = <<>>
       THEN Exit("No remotes found in config!", 1)
       ELSE pc' = "get_targets" /\ UNCHANGED <<stdout, outcome, exit_status>>
    /\ UNCHANGED <<environ, target_configs, kubernetes_namespace, tool_name, forward_to,
                   config, idx, probes, file, binary_is_file, execv>>

\* main(): load the targets, exit when there are none
MainTargets ==
    /\ pc = "get_targets"
    /\ LET loaded == get_targets_config(environ) IN
       IF ~loaded.ok
       THEN Uncaught /\ UNCHANGED target_configs
       ELSE /\ target_configs' = loaded.targets
            /\ IF loaded.targets = <<>>
               THEN Exit("No targets found!", 1)
               ELSE pc' = "write_config" /\ UNCHANGED <<stdout, outcome, exit_status>>
    /\ UNCHANGED <<environ, remotes, kubernetes_namespace, tool_name, forward_to,
                   config, idx, probes, file, binary_is_file, execv>>

\* write_config up to the loop over the targets (main passes no debug flag)
WriteConfigBegin ==
    /\ pc = "write_config"
    /\ \E nsfile \in NamespaceFiles :
          /\ kubernetes_namespace' = get_kubernetes_namespace(nsfile)
          /\ tool_name' = get_tool_name(get_kubernetes_namespace(nsfile))
    /\ config' = RenderDebug(FALSE)
    /\ forward_to' = ForwardTo(remotes)
    /\ idx' = 1
    /\ pc' = "targets"
    /\ UNCHANGED <<environ, remotes, target_configs, probes, file, stdout, outcome,
                   exit_status, binary_is_file, execv>>

\* AppendEntry putting the entry's blocks before the text already there
AppendEntry_Prepend(cfg, t, namespace, tool, kubeconfig, fwd) ==
    RenderEntry(t, namespace, tool, kubeconfig, fwd) \o cfg

\* what one iteration of the loop over the targets does to config
AppendEntry(cfg, t, namespace, tool, kubeconfig, fwd) ==
    cfg \o RenderEntry(t, namespace, tool, kubeconfig, fwd)

\* one iteration of `for target_config in target_configs`
WriteConfigTarget ==
    /\ pc = "targets"
    /\ idx <= Len(target_configs)
    /\ LET t == target_configs[idx] IN
       \E is_file \in (IF t.cls = "DiscoverConfig" /\ Truthy(environ.TOOL_DATA_DIR)
                       THEN BOOLEAN ELSE {FALSE}) :
          LET kubeconfig == Kubeconfig(environ, is_file)
              next == AppendEntry(config, t, kubernetes_namespace, tool_name, kubeconfig,
                                  forward_to)
          IN  /\ config' = next
              /\ probes' = Append(probes, [from |-> Len(config) + 1,
                                           upto |-> Len(config) + Len(RenderEntry(
                                                        t, kubernetes_namespace, tool_name,
                                                        kubeconfig, forward_to)),
                                           kubeconfig |-> kubeconfig])
    /\ idx' = idx + 1
    /\ pc' = IF idx = Len(target_configs) THEN "remotes" ELSE "targets"
    /\ UNCHANGED <<environ, remotes, target_configs, kubernetes_namespace, tool_name,
                   forward_to, file, stdout, outcome, exit_status, binary_is_file, execv>>

\* what the loop over the remotes does to config
AppendRemotes(cfg, rs) == cfg \o RenderRemotes(rs)

\* the loop `for name, remote in remotes.items()`
WriteConfigRemotes ==
    /\ pc = "remotes"
    /\ config' = AppendRemotes(config, remotes)
    /\ pc' = "open"
    /\ UNCHANGED <<environ, remotes, target_configs, kubernetes_namespace, tool_name,
                   forward_to, idx, probes, file, stdout, outcome, exit_status,
                   binary_is_file, execv>>

\* config_path.open("w") and fh.write(config); the open may raise OSError
WriteConfigFile ==
    /\ pc = "open"
    /\ \E opened \in BOOLEAN :
          IF opened
          THEN /\ file' = Some(config)
               /\ pc' = "run_alloy"
               /\ UNCHANGED <<stdout, outcome, exit_status>>
          ELSE Uncaught /\ UNCHANGED file
    /\ UNCHANGED <<environ, remotes, target_configs, kubernetes_namespace, tool_name,
                   forward_to, config, idx, probes, binary_is_file, execv>>

ALLOY_ARGV ==
    <<"alloy", "run", "--cluster.enabled=false", "--disable-reporting=true",
      "--server.http.listen-addr=0.0.0.0:8118", "--storage.path=/tmp/data",
      "/tmp/config.alloy">>

\* RunAlloyDecision without the is_file check
RunAlloyDecision_NoCheck(is_file) == Some(ALLOY_ARGV)

\* run_alloy's decision: None is sys.exit(2), otherwise the argv of os.execv
RunAlloyDecision(is_file) == IF ~is_file THEN None ELSE Some(ALLOY_ARGV)

\* run_alloy
RunAlloy ==
    /\ pc = "run_alloy"
    /\ \E is_file \in BOOLEAN :
          /\ binary_is_file' = Some(is_file)
          /\ execv' = RunAlloyDecision(is_file)
          /\ IF RunAlloyDecision(is_file) = None
             THEN Exit("Missing binary!", 2)
             ELSE /\ outcome' = "exec"
                  /\ pc' = "done"
                  /\ UNCHANGED <<stdout, exit_status>>
    /\ UNCHANGED <<environ, remotes, target_configs, kubernetes_namespace, tool_name,
                   forward_to, config, idx, probes, file>>

Next ==
    \/ MainRemotes
    \/ MainTargets
    \/ WriteConfigBegin
    \/ WriteConfigTarget
    \/ WriteConfigRemotes
    \/ WriteConfigFile
    \/ RunAlloy

Spec == Init /\ [][Next]_vars

\* the runs whose ALLOY_SCRAPE_TARGETS is an array of complete static targets, no
\* two of them with the same host and port
InitDistinctTargets ==
    /\ Init
    /\ IsSome(environ.ALLOY_SCRAPE_TARGETS)
    /\ LET items == environ.ALLOY_SCRAPE_TARGETS[1].items IN
       /\ items # <<>>
       /\ \A k \in DOMAIN items :
             /\ items[k].type \in {None, Some(<<"target">>)}
             /\ items[k].host # None
             /\ items[k].port # None
       /\ \A k, l \in DOMAIN items :
             k # l => <<items[k].host, items[k].port>> # <<items[l].host, items[l].port>>

SpecDistinctTargets == InitDistinctTargets /\ [][Next]_vars

---------------------------------------------------------------------------
(* What the environment asks for, read off the environment itself *)

\* no destination: the local one switched off, ALLOY_REMOTE_URL unset or empty
NoDestination ==
    /\ environ.ALLOY_SEND_TO_LOCAL_CLUSTER = Some(<<"false">>)
    /\ environ.ALLOY_REMOTE_URL \in {None, Some(<<>>)}

\* the names of the destinations the environment configures, "local" first
ConfiguredNames ==
    (IF environ.ALLOY_SEND_TO_LOCAL_CLUSTER = Some(<<"false">>) THEN <<>> ELSE <<<<"local">>>>)
    \o (IF environ.ALLOY_REMOTE_URL \in {None, Some(<<>>)} THEN <<>> ELSE <<<<"remote">>>>)

\* the elements of the ALLOY_SCRAPE_TARGETS array (<<>> when it is not an array)
Items ==
    IF IsSome(environ.ALLOY_SCRAPE_TARGETS) /\ environ.ALLOY_SCRAPE_TARGETS[1].kind = "array"
    THEN environ.ALLOY_SCRAPE_TARGETS[1].items
    ELSE <<>>

IsTargetObject(o) == o.type \in {None, Some(<<"target">>)}

IsDiscoverObject(o) == o.type = Some(<<"discover">>)

IsOtherObject(o) == ~IsTargetObject(o) /\ ~IsDiscoverObject(o)

\* a 'target' element without host or port, a 'discover' element with a nameless job
IsBadObject(o) ==
    \/ IsTargetObject(o) /\ (o.host = None \/ o.port = None)
    \/ IsDiscoverObject(o) /\ o.jobs # None /\ \E k \in DOMAIN o.jobs[1] : o.jobs[1][k].name = None

\* ALLOY_SCRAPE_TARGETS is not JSON, or holds a bad element
BadTargets ==
    /\ IsSome(environ.ALLOY_SCRAPE_TARGETS)
    /\ \/ environ.ALLOY_SCRAPE_TARGETS[1].kind = "malformed"
       \/ \E k \in DOMAIN Items : IsBadObject(Items[k])

\* ALLOY_SCRAPE_TARGETS unset, empty, or an array that holds no target or
\* discovery element (the empty array among them)
NoTargets ==
    \/ environ.ALLOY_SCRAPE_TARGETS = None
    \/ environ.ALLOY_SCRAPE_TARGETS[1].kind = "empty"
    \/ /\ environ.ALLOY_SCRAPE_TARGETS[1].kind = "array"
       /\ \A k \in DOMAIN Items : IsOtherObject(Items[k])

\* the process has ended
Done == pc = "done"

---------------------------------------------------------------------------
(* C1 *)

\* C1: when the environment configures no destination, or the target list it
\* gives is empty, the process always goes on to end, it ends by sys.exit(1),
\* and at no point of the run is the configuration file written or alloy exec'd.
C1_ConfigurationAbsenceExits ==
    (NoDestination \/ NoTargets) =>
        /\ file = None
        /\ execv = None
        /\ outcome \in {"running", "exit"}
        /\ Done => outcome = "exit" /\ exit_status = Some(1)
        /\ Done \/ ENABLED Next

\* a run with a destination and an array holding only an element of another type
\* has ended with "No targets found!"
C1_Witness ==
    /\ Done
    /\ ~NoDestination
    /\ NoTargets
    /\ Len(Items) > 0
    /\ stdout = <<"No targets found!">>
    /\ exit_status = Some(1)

---------------------------------------------------------------------------
(* C2 *)

\* C2: when the alloy binary is missing the process ends by sys.exit(2) and
\* os.execv is never called; os.execv is called only once the binary was found to
\* exist, and the binary is looked for only once the configuration file holds the
\* rendered document.
C2_ExecOnlyAfterCheckAndWrite ==
    /\ binary_is_file = Some(FALSE) =>
          Done /\ outcome = "exit" /\ exit_status = Some(2) /\ execv = None
    /\ execv # None => binary_is_file = Some(TRUE) /\ outcome = "exec"
    /\ outcome = "exec" => execv = Some(ALLOY_ARGV)
    /\ binary_is_file # None => file = Some(config) /\ config # <<>>
    /\ pc = "run_alloy" => file = Some(config)

\* the binary was missing and the process has ended
C2_Witness ==
    /\ Done
    /\ binary_is_file = Some(FALSE)
    /\ stdout = <<"Missing binary!">>
    /\ file # None

---------------------------------------------------------------------------
(* C3 *)

\* C3 as stated: whenever ALLOY_SCRAPE_TARGETS is not JSON or holds a bad element,
\* the process ends with an uncaught error and writes nothing.
C3_Original ==
    BadTargets =>
        /\ file = None
        /\ execv = None
        /\ Done => outcome = "uncaught"

\* C3, amended: whenever ALLOY_SCRAPE_TARGETS is not JSON or holds a bad element,
\* the configuration file is never written and alloy is never exec'd, however
\* many valid elements precede the bad one, and the process always goes on to
\* end: with an uncaught error when a destination is configured, and by
\* sys.exit(1) when none is (the destinations are checked first).
C3_BadTargetsAreFatal ==
    BadTargets =>
        /\ file = None
        /\ execv = None
        /\ config = <<>>
        /\ Done /\ ~NoDestination => outcome = "uncaught" /\ stdout = <<>>
        /\ Done /\ NoDestination => outcome = "exit" /\ exit_status = Some(1)
        /\ Done \/ ENABLED Next

\* a run whose array holds a valid element and then a bad one has ended uncaught
C3_Witness ==
    /\ Done
    /\ outcome = "uncaught"
    /\ Len(Items) = 2
    /\ ~IsBadObject(Items[1]) /\ ~IsOtherObject(Items[1])
    /\ IsBadObject(Items[2])

---------------------------------------------------------------------------
(* Reading the rendered document *)

\* write_config has appended every block
Rendered == pc \in {"open", "run_alloy"} \/ (Done /\ idx > 0 /\ idx > Len(target_configs))

\* the line closing the block that starts at line i
BlockEnd(doc, i) ==
    CHOOSE j \in i..Len(doc) : doc[j].t = T_CLOSE /\ \A k \in i..(j - 1) : doc[k].t # T_CLOSE

\* the block that starts at line i
Block(doc, i) == SubSeq(doc, i, BlockEnd(doc, i))

\* the lines of doc that open a block of kind t; of kind t and name n
Headers(doc, t) == { i \in DOMAIN doc : doc[i].t = t }

HeadersNamed(doc, t, n) == { i \in DOMAIN doc : doc[i] = Line(t, <<n>>) }

\* the lines of block b written from template t
LinesOf(b, t) == { k \in DOMAIN b : b[k].t = t }

\* an environment variable is set and not empty
Present(o) == o # None /\ o # Some(<<>>)

\* the credentials and url the environment gives destination n
EnvUsername(n) ==
    IF n = <<"local">> THEN environ.ALLOY_LOCAL_USERNAME ELSE environ.ALLOY_REMOTE_USERNAME

EnvPassword(n) ==
    IF n = <<"local">> THEN environ.ALLOY_LOCAL_PASSWORD ELSE environ.ALLOY_REMOTE_PASSWORD

\* every value interpolated anywhere in doc
ValuesIn(doc) == UNION { { doc[i].a[k] : k \in DOMAIN doc[i].a } : i \in DOMAIN doc }

---------------------------------------------------------------------------
(* C4 *)

\* C4 as stated: a destination's block holds a basic_auth block iff both its
\* username and password are present; otherwise rendering still completes and
\* neither credential appears anywhere in the document.
C4_Original ==
    Rendered =>
        \A x \in DOMAIN ConfiguredNames :
            LET n == ConfiguredNames[x]
                both == Present(EnvUsername(n)) /\ Present(EnvPassword(n))
                at == HeadersNamed(config, T_REMOTE_WRITE, n)
            IN  /\ Cardinality(at) = 1
                /\ \A i \in at : (LinesOf(Block(config, i), T_BASIC_AUTH) # {}) <=> both
                /\ ~both =>
                      /\ Present(EnvUsername(n)) => EnvUsername(n)[1] \notin ValuesIn(config)
                      /\ Present(EnvPassword(n)) => EnvPassword(n)[1] \notin ValuesIn(config)

\* C4, amended: a destination's remote_write block holds a basic_auth block iff
\* both its username and password are present (set and not empty), and then the
\* block gives exactly that username and password; when only one of them or
\* neither is supplied, rendering completes without error and the destination's
\* block holds no basic_auth block and no username or password attribute.  (The
\* same string can still appear elsewhere in the document, as the credential of
\* the other destination.)
C4_BasicAuthOnlyWithBoth ==
    /\ (~NoDestination /\ ~NoTargets /\ ~BadTargets) =>
          /\ outcome = "uncaught" => pc = "done" /\ Rendered
          /\ Rendered \/ ENABLED Next
    /\ Rendered =>
        \A x \in DOMAIN ConfiguredNames :
            LET n == ConfiguredNames[x]
                both == Present(EnvUsername(n)) /\ Present(EnvPassword(n))
                at == HeadersNamed(config, T_REMOTE_WRITE, n)
            IN  /\ Cardinality(at) = 1
                /\ \A i \in at :
                      LET b == Block(config, i) IN
                      IF both
                      THEN \E k \in DOMAIN b :
                              /\ LinesOf(b, T_BASIC_AUTH) = {k}
                              /\ b[k + 1] = Line(T_USERNAME, <<EnvUsername(n)[1]>>)
                              /\ b[k + 2] = Line(T_PASSWORD, <<EnvPassword(n)[1]>>)
                              /\ LinesOf(b, T_USERNAME) = {k + 1}
                              /\ LinesOf(b, T_PASSWORD) = {k + 2}
                      ELSE /\ LinesOf(b, T_BASIC_AUTH) = {}
                           /\ LinesOf(b, T_USERNAME) = {}
                           /\ LinesOf(b, T_PASSWORD) = {}

\* a document was rendered for a destination with a username and no password
C4_Witness ==
    /\ Rendered
    /\ \E x \in DOMAIN ConfiguredNames :
          /\ Present(EnvUsername(ConfiguredNames[x]))
          /\ ~Present(EnvPassword(ConfiguredNames[x]))
    /\ \E x \in DOMAIN ConfiguredNames :
          /\ Present(EnvUsername(ConfiguredNames[x]))
          /\ Present(EnvPassword(ConfiguredNames[x]))

---------------------------------------------------------------------------
(* C5 *)

\* the receivers a forward_to line names
ReceiversOf(line) == Split(line.a[1], <<", ">>)

\* C5: in the rendered document every prometheus.scrape block has one forward_to
\* line, which names the receiver of every configured destination, in order, and
\* nothing else; and every receiver a forward_to line names has exactly one
\* prometheus.remote_write block of its name in the document.
C5_ScrapeForwardsToEveryRemote ==
    Rendered =>
        \A i \in Headers(config, T_SCRAPE) :
            LET b == Block(config, i) IN
            /\ Cardinality(LinesOf(b, T_FORWARD_TO)) = 1
            /\ \A k \in LinesOf(b, T_FORWARD_TO) :
                  /\ ReceiversOf(b[k]) =
                        [x \in DOMAIN ConfiguredNames |->
                            <<"prometheus.remote_write.">> \o ConfiguredNames[x]
                                \o <<".receiver">>]
                  /\ \A x \in DOMAIN ReceiversOf(b[k]) :
                        /\ Len(ReceiversOf(b[k])[x]) = 3
                        /\ Cardinality(HeadersNamed(config, T_REMOTE_WRITE,
                                                    <<ReceiversOf(b[k])[x][2]>>)) = 1

\* a document with a static target and a discovery job was rendered for both
\* destinations
C5_Witness ==
    /\ Rendered
    /\ ConfiguredNames = << <<"local">>, <<"remote">> >>
    /\ \E i, j \in DOMAIN target_configs :
          target_configs[i].cls = "TargetConfig" /\ target_configs[j].cls = "DiscoverConfig"
    /\ Cardinality(Headers(config, T_SCRAPE)) >= 2

---------------------------------------------------------------------------
(* The lines each entry of target_configs was given *)

\* the lines appended for entry i
Chunk(i) == SubSeq(config, probes[i].from, probes[i].upto)

\* the lines of b written from template t, in order
IndexSeq(b, t) ==
    [n \in 1..Cardinality(LinesOf(b, t)) |->
        CHOOSE k \in LinesOf(b, t) : Cardinality({ j \in LinesOf(b, t) : j < k }) = n - 1]

IsStatic(i) == target_configs[i].cls = "TargetConfig"

IsDiscover(i) == target_configs[i].cls = "DiscoverConfig"

\* the jobs among the first n of jobs that are not named "all"
Filtered(jobs, n) == SelectSeq(SubSeq(jobs, 1, n), LAMBDA j : j.name # S_all)

---------------------------------------------------------------------------
(* C6 *)

\* C6: under every namespace, kubeconfig and set of destinations, the lines
\* rendered for a discovery entry with an empty jobs list are exactly the lines
\* rendered for the same entry with the single job "all", interval "60s",
\* timeout "60s", no path (whatever its label key).
C6_EmptyJobsIsAll ==
    \A i \in DOMAIN probes :
        (IsDiscover(i) /\ target_configs[i].jobs = <<>>) =>
            \A label \in {DEFAULT_LABEL, <<"app">>} :
                Chunk(i) = RenderDiscover(
                               DiscoverConfig(target_configs[i].role,
                                              <<JobConfig(S_all, <<"60s">>, <<"60s">>, label, None)>>),
                               kubernetes_namespace, probes[i].kubeconfig, forward_to)

\* a discovery entry without jobs was rendered, with a namespace and a kubeconfig
C6_Witness ==
    \E i \in DOMAIN probes :
        /\ IsDiscover(i)
        /\ target_configs[i].jobs = <<>>
        /\ kubernetes_namespace # None
        /\ probes[i].kubeconfig # None
        /\ Len(forward_to) = 2

---------------------------------------------------------------------------
(* C7 *)

RemoveAt(seq, k) == SubSeq(seq, 1, k - 1) \o SubSeq(seq, k + 1, Len(seq))

\* the environment with element k of the ALLOY_SCRAPE_TARGETS array removed
EnvironWithout(k) ==
    [environ EXCEPT !.ALLOY_SCRAPE_TARGETS = Some([kind |-> "array", items |-> RemoveAt(Items, k)])]

\* the blocks of the first n entries of ts, then the blocks of the destinations rs,
\* each entry rendered with the kubeconfig its probe found
RECURSIVE EntriesText(_, _)
EntriesText(ts, n) ==
    IF n = 0 THEN <<>>
    ELSE EntriesText(ts, n - 1)
         \o RenderEntry(ts[n], kubernetes_namespace, tool_name, probes[n].kubeconfig, forward_to)

---------------------------------------------------------------------------
(* C8 *)

\* the name of the scrape block, and of the filter block, of job n of entry i
ScrapeNameOf(i, n) == Chunk(i)[IndexSeq(Chunk(i), T_SCRAPE)[n]].a[1]

FilterNameOf(i, n) ==
    Chunk(i)[IndexSeq(Chunk(i), T_RELABEL)[Len(Filtered(target_configs[i].jobs, n))]].a[1]

\* C8: in the rendered document two static targets that differ in host or port
\* have different scrape block names, two discovery jobs that differ in role or
\* job name have different scrape block names and different filter block names,
\* no two blocks of one kind have the same name, and no derived name holds a
\* hyphen.
C8_UniqueBlockNames ==
    Rendered =>
        /\ \A i, j \in DOMAIN target_configs :
              (/\ IsStatic(i) /\ IsStatic(j)
               /\ <<target_configs[i].host, target_configs[i].port>>
                     # <<target_configs[j].host, target_configs[j].port>>)
              => Chunk(i)[1].a[1] # Chunk(j)[1].a[1]
        /\ \A i, j \in DOMAIN target_configs :
              (IsDiscover(i) /\ IsDiscover(j)) =>
                  \A n \in DOMAIN target_configs[i].jobs, m \in DOMAIN target_configs[j].jobs :
                      LET a == target_configs[i].jobs[n]
                          b == target_configs[j].jobs[m]
                      IN  <<target_configs[i].role, a.name>> # <<target_configs[j].role, b.name>>
                          => /\ ScrapeNameOf(i, n) # ScrapeNameOf(j, m)
                             /\ (a.name # S_all /\ b.name # S_all)
                                   => FilterNameOf(i, n) # FilterNameOf(j, m)
        /\ \A t \in {T_SCRAPE, T_RELABEL, T_DISCOVERY, T_REMOTE_WRITE} :
              \A p, q \in Headers(config, t) : p # q => config[p].a # config[q].a
        /\ \A p \in Headers(config, T_SCRAPE) \cup Headers(config, T_RELABEL) :
              \A k \in DOMAIN config[p].a[1] : config[p].a[1][k] # "-"

---------------------------------------------------------------------------
(* C9 *)

\* C9: the lines rendered for a discovery entry hold one scrape block per job, in
\* the jobs' order, and one discovery.relabel block per job not named "all".  The
\* filter of such a job reads the raw discovery output of the entry's role and
\* keeps the endpoints whose label (the job's label key) matches the job's name,
\* and the job's scrape block reads that filter's output and not the raw
\* discovery output.  The scrape block of a job named "all" reads the raw
\* discovery output.  Every filter output a scrape block reads is the output of
\* a filter block of the document.
C9_OneScrapePerJob ==
    /\ \A i \in DOMAIN probes :
          (IsDiscover(i) /\ target_configs[i].jobs # <<>>) =>
              LET jobs == target_configs[i].jobs
                  role == target_configs[i].role
                  c == Chunk(i)
                  scrapes == IndexSeq(c, T_SCRAPE)
                  filters == IndexSeq(c, T_RELABEL)
              IN  /\ Len(scrapes) = Len(jobs)
                  /\ Len(filters) = Len(Filtered(jobs, Len(jobs)))
                  /\ \A n \in DOMAIN jobs :
                        LET b == Block(c, scrapes[n]) IN
                        IF jobs[n].name # S_all
                        THEN LET f == Block(c, filters[Len(Filtered(jobs, n))]) IN
                             /\ LinesOf(b, T_TARGETS_DISCOVERY) = {}
                             /\ Cardinality(LinesOf(b, T_TARGETS_RELABEL)) = 1
                             /\ \A k \in LinesOf(b, T_TARGETS_RELABEL) : b[k].a = f[1].a
                             /\ f[2] = Line(T_TARGETS_DISCOVERY, <<role>>)
                             /\ f[4] = Line(T_SOURCE_LABELS, <<jobs[n].label>>)
                             /\ f[5] = Line(T_REGEX, <<jobs[n].name>>)
                             /\ f[6] = Line(T_ACTION_KEEP, <<>>)
                             /\ Cardinality(LinesOf(f, T_REGEX)) = 1
                        ELSE /\ LinesOf(b, T_TARGETS_RELABEL) = {}
                             /\ \E k \in DOMAIN b :
                                   /\ LinesOf(b, T_TARGETS_DISCOVERY) = {k}
                                   /\ b[k] = Line(T_TARGETS_DISCOVERY, <<role>>)
    /\ \A p \in Headers(config, T_TARGETS_RELABEL) :
          HeadersNamed(config, T_RELABEL, config[p].a[1]) # {}

\* a discovery entry with an "all" job and a filtered job was rendered
C9_Witness ==
    \E i \in DOMAIN probes :
        /\ IsDiscover(i)
        /\ \E n, m \in DOMAIN target_configs[i].jobs :
              target_configs[i].jobs[n].name = S_all /\ target_configs[i].jobs[m].name # S_all

---------------------------------------------------------------------------
(* C10 *)

\* every entry rendered so far was given the next lines of the document
C10_InOrder ==
    /\ \A i \in DOMAIN probes :
          /\ probes[i].from = (IF i = 1 THEN 1 ELSE probes[i - 1].upto + 1)
          /\ probes[i].from <= probes[i].upto
          /\ probes[i].upto <= Len(config)
          /\ Chunk(i) = RenderEntry(target_configs[i], kubernetes_namespace, tool_name,
                                    probes[i].kubeconfig, forward_to)
    /\ pc \in {"targets", "remotes"} =>
          /\ Len(probes) = idx - 1
          /\ Len(config) = (IF probes = <<>> THEN 0 ELSE probes[Len(probes)].upto)
    /\ Rendered =>
          /\ Len(probes) = Len(target_configs)
          /\ \A t \in {T_SCRAPE, T_DISCOVERY, T_RELABEL} :
                \A p \in Headers(config, t) : p <= probes[Len(probes)].upto
          /\ \A p \in Headers(config, T_REMOTE_WRITE) : p > probes[Len(probes)].upto
          /\ [n \in DOMAIN IndexSeq(config, T_REMOTE_WRITE) |->
                 config[IndexSeq(config, T_REMOTE_WRITE)[n]].a[1]] = ConfiguredNames

\* a step leaves the text already appended where it is
C10_AppendOnly ==
    /\ Len(config) <= Len(config')
    /\ SubSeq(config', 1, Len(config)) = config

\* C10: the blocks of the target entries appear in the entries' order, each
\* entry's blocks right after those of the entry before it; the remote-write
\* blocks come after all of them, in the order "local", "remote"; and no step
\* changes text that was already appended.
C10_AppendOnlyInOrder == [](C10_InOrder) /\ [][C10_AppendOnly]_vars

\* a document of two different entries was rendered for both destinations
C10_Witness ==
    /\ Rendered
    /\ Len(target_configs) = 2
    /\ target_configs[1] # target_configs[2]
    /\ ConfiguredNames = << <<"local">>, <<"remote">> >>

====
